---- MODULE Spec2Model ----
(***************************************************************************)
(* Model of roi12/tic-tac-toe, src/game.py: the board helpers, the minimax *)
(* search and the TicTacToeGame controller (its event handlers).           *)
(***************************************************************************)
EXTENDS Integers, Sequences, FiniteSets, TLC

\* Python's None, for a cell of the board and for check_winner's result.
None == "None"
\* TicTacToeGame.HUMAN_MARK / AI_MARK.
HUMAN_MARK == "X"
AI_MARK == "O"
\* _minimax's move None, depth_limit None and math.inf, as integers outside
\* the ranges of moves (0..8), depths (0..9) and scores (-10..10).
NoMove == -1
NoLimit == -1
Inf == 100
MediumDepth == 3

Cells == 0 .. 8
Cell == {None, HUMAN_MARK, AI_MARK}
\* [None] * 9
EmptyBoard ==
  (0 :> None) @@ (1 :> None) @@ (2 :> None) @@ (3 :> None) @@ (4 :> None) @@
  (5 :> None) @@ (6 :> None) @@ (7 :> None) @@ (8 :> None)

\* ------------------------------------------------------------------------
\* Game state helpers (static methods)
\* ------------------------------------------------------------------------

\* The comprehension over reversed(list(enumerate(board))).
available_moves_descending(b) ==
  SelectSeq(<<8, 7, 6, 5, 4, 3, 2, 1, 0>>, LAMBDA idx : b[idx] = None)

\* [idx for idx, value in enumerate(board) if value is None]
available_moves(b) ==
  SelectSeq(<<0, 1, 2, 3, 4, 5, 6, 7, 8>>, LAMBDA idx : b[idx] = None)

winning_lines ==
  << <<0, 1, 2>>, <<3, 4, 5>>, <<6, 7, 8>>,
     <<0, 3, 6>>, <<1, 4, 7>>, <<2, 5, 8>>,
     <<0, 4, 8>>, <<2, 4, 6>> >>

\* The test of one line without "board[a] and": three empty cells pass it.
LineCompleteOfEqualCells(b, line) ==
  /\ b[line[1]] = b[line[2]]
  /\ b[line[2]] = b[line[3]]

\* The test of one line: board[a] and board[a] == board[b] == board[c].
LineComplete(b, line) ==
  /\ b[line[1]] # None
  /\ b[line[1]] = b[line[2]]
  /\ b[line[2]] = b[line[3]]

\* The for loop over winning_lines, which returns at the first complete line.
FirstCompleteLine(b) ==
  IF LineComplete(b, winning_lines[1]) THEN 1
  ELSE IF LineComplete(b, winning_lines[2]) THEN 2
  ELSE IF LineComplete(b, winning_lines[3]) THEN 3
  ELSE IF LineComplete(b, winning_lines[4]) THEN 4
  ELSE IF LineComplete(b, winning_lines[5]) THEN 5
  ELSE IF LineComplete(b, winning_lines[6]) THEN 6
  ELSE IF LineComplete(b, winning_lines[7]) THEN 7
  ELSE IF LineComplete(b, winning_lines[8]) THEN 8
  ELSE 0

check_winner(b) ==
  LET k == FirstCompleteLine(b) IN
  IF k # 0 THEN b[winning_lines[k][1]]
  ELSE IF \A idx \in Cells : b[idx] # None THEN "Draw"
  ELSE None

\* ------------------------------------------------------------------------
\* AI logic: _minimax
\* ------------------------------------------------------------------------

\* What _minimax returns, with the board as the call leaves it: the search
\* works on the caller's list in place.
SearchResult(score, move, b) == [score |-> score, move |-> move, board |-> b]

\* A node of a search, the board and the depth, as one integer: the board in
\* base 3 (cell idx the idx-th digit), then the depth as the last decimal digit.
CellCode(c) == IF c = None THEN 0 ELSE IF c = HUMAN_MARK THEN 1 ELSE 2
CodeCell == <<None, HUMAN_MARK, AI_MARK>>
Pow3 == <<1, 3, 9, 27, 81, 243, 729, 2187, 6561>>
NodeKey(b, d) ==
  10 * (CellCode(b[0]) + 3 * (CellCode(b[1]) + 3 * (CellCode(b[2]) + 3 * (CellCode(b[3])
      + 3 * (CellCode(b[4]) + 3 * (CellCode(b[5]) + 3 * (CellCode(b[6])
      + 3 * (CellCode(b[7]) + 3 * CellCode(b[8]))))))))) + d
KeyCell(k, idx) == CodeCell[(((k \div 10) \div Pow3[idx + 1]) % 3) + 1]
KeyBoard(k) ==
  (0 :> KeyCell(k, 0)) @@ (1 :> KeyCell(k, 1)) @@ (2 :> KeyCell(k, 2)) @@
  (3 :> KeyCell(k, 3)) @@ (4 :> KeyCell(k, 4)) @@ (5 :> KeyCell(k, 5)) @@
  (6 :> KeyCell(k, 6)) @@ (7 :> KeyCell(k, 7)) @@ (8 :> KeyCell(k, 8))
KeyDepth(k) == k % 10
Count(b, mark) == Cardinality({idx \in Cells : b[idx] = mark})

\* The loop body without its "board[move] = None".
UndoForgotten(b, move) == b

\* board[move] = mark and board[move] = None, around the recursive call.
Place(b, move, mark) == [b EXCEPT ![move] = mark]
Undo(b, move) == [b EXCEPT ![move] = None]

\* _minimax with the results of its recursive calls given where they are
\* known: memo is <<>>, and the calls are made, or <<t>>, and t[NodeKey(b, d)]
\* is what the call on board b at depth d returns.
RECURSIVE MinimaxWith(_, _, _, _, _)

\* self._minimax(board, is_maximizing=..., depth_limit=..., depth=...) inside
\* the loop.
RecursiveCall(memo, b, is_maximizing, depth_limit, depth) ==
  IF Len(memo) = 0
  THEN MinimaxWith(memo, b, is_maximizing, depth_limit, depth)
  ELSE memo[1][NodeKey(b, depth)]

\* The loop body with "best_move = move" left out of both branches.
LoopStepForgettingMove(memo, acc, moves, k, is_maximizing, depth_limit, depth) ==
  IF k > Len(moves) THEN acc
  ELSE LET move == moves[k]
           mark == IF is_maximizing THEN AI_MARK ELSE HUMAN_MARK
           sub == RecursiveCall(memo, Place(acc.board, move, mark),
                                ~is_maximizing, depth_limit, depth + 1)
           undone == Undo(sub.board, move)
       IN IF is_maximizing
          THEN SearchResult(IF sub.score > acc.score THEN sub.score ELSE acc.score,
                            acc.move, undone)
          ELSE SearchResult(IF sub.score < acc.score THEN sub.score ELSE acc.score,
                            acc.move, undone)

\* The loop left after its first iteration: only the first move is tried.
LoopStepFirstMoveOnly(memo, acc, moves, k, is_maximizing, depth_limit, depth) ==
  IF k > Len(moves) \/ k > 1 THEN acc
  ELSE LET move == moves[k]
           mark == IF is_maximizing THEN AI_MARK ELSE HUMAN_MARK
           sub == RecursiveCall(memo, Place(acc.board, move, mark),
                                ~is_maximizing, depth_limit, depth + 1)
       IN SearchResult(sub.score, move, Undo(sub.board, move))

\* The loop body with ">=" for ">" and "<=" for "<": of the moves with the
\* best score the last one is kept.
LoopStepKeepingLast(memo, acc, moves, k, is_maximizing, depth_limit, depth) ==
  IF k > Len(moves) THEN acc
  ELSE LET move == moves[k]
           mark == IF is_maximizing THEN AI_MARK ELSE HUMAN_MARK
           sub == RecursiveCall(memo, Place(acc.board, move, mark),
                                ~is_maximizing, depth_limit, depth + 1)
           undone == Undo(sub.board, move)
       IN IF is_maximizing
          THEN IF sub.score >= acc.score
               THEN SearchResult(sub.score, move, undone)
               ELSE SearchResult(acc.score, acc.move, undone)
          ELSE IF sub.score <= acc.score
               THEN SearchResult(sub.score, move, undone)
               ELSE SearchResult(acc.score, acc.move, undone)

\* One iteration of "for move in self.available_moves(board)": place the mark,
\* recurse, undo the placement, keep the better score. k is the position in
\* the list of moves taken before the loop; past its end nothing happens.
LoopStep(memo, acc, moves, k, is_maximizing, depth_limit, depth) ==
  IF k > Len(moves) THEN acc
  ELSE LET move == moves[k]
           mark == IF is_maximizing THEN AI_MARK ELSE HUMAN_MARK
           sub == RecursiveCall(memo, Place(acc.board, move, mark),
                                ~is_maximizing, depth_limit, depth + 1)
           undone == Undo(sub.board, move)
       IN IF is_maximizing
          THEN IF sub.score > acc.score
               THEN SearchResult(sub.score, move, undone)
               ELSE SearchResult(acc.score, acc.move, undone)
          ELSE IF sub.score < acc.score
               THEN SearchResult(sub.score, move, undone)
               ELSE SearchResult(acc.score, acc.move, undone)

\* _minimax with "return 10 - depth, None" written as "return depth - 10, None":
\* a win of O is scored as a win of X.
MinimaxWithWinAsLoss(memo, b, is_maximizing, depth_limit, depth) ==
  LET result == check_winner(b) IN
  IF result = AI_MARK THEN SearchResult(depth - 10, NoMove, b)
  ELSE IF result = HUMAN_MARK THEN SearchResult(depth - 10, NoMove, b)
  ELSE IF result = "Draw" THEN SearchResult(0, NoMove, b)
  ELSE IF depth_limit # NoLimit /\ depth >= depth_limit THEN SearchResult(0, NoMove, b)
  ELSE LET moves == available_moves(b)
           Step(acc, k) == LoopStep(memo, acc, moves, k, is_maximizing, depth_limit, depth)
           a0 == SearchResult(IF is_maximizing THEN -Inf ELSE Inf, NoMove, b)
           a1 == Step(a0, 1)
           a2 == Step(a1, 2)
           a3 == Step(a2, 3)
           a4 == Step(a3, 4)
           a5 == Step(a4, 5)
           a6 == Step(a5, 6)
           a7 == Step(a6, 7)
           a8 == Step(a7, 8)
           a9 == Step(a8, 9)
       IN <<a1, a2, a3, a4, a5, a6, a7, a8, a9>>[9]

\* _minimax with "depth >= depth_limit" written as "depth > depth_limit".
MinimaxWithLimitPassed(memo, b, is_maximizing, depth_limit, depth) ==
  LET result == check_winner(b) IN
  IF result = AI_MARK THEN SearchResult(10 - depth, NoMove, b)
  ELSE IF result = HUMAN_MARK THEN SearchResult(depth - 10, NoMove, b)
  ELSE IF result = "Draw" THEN SearchResult(0, NoMove, b)
  ELSE IF depth_limit # NoLimit /\ depth > depth_limit THEN SearchResult(0, NoMove, b)
  ELSE LET moves == available_moves(b)
           Step(acc, k) == LoopStep(memo, acc, moves, k, is_maximizing, depth_limit, depth)
           a0 == SearchResult(IF is_maximizing THEN -Inf ELSE Inf, NoMove, b)
           a1 == Step(a0, 1)
           a2 == Step(a1, 2)
           a3 == Step(a2, 3)
           a4 == Step(a3, 4)
           a5 == Step(a4, 5)
           a6 == Step(a5, 6)
           a7 == Step(a6, 7)
           a8 == Step(a7, 8)
           a9 == Step(a8, 9)
       IN <<a1, a2, a3, a4, a5, a6, a7, a8, a9>>[9]

\* The body of _minimax. The loop runs over at most 9 moves; its iterations
\* are evaluated in order, each from the one before.
MinimaxWith(memo, b, is_maximizing, depth_limit, depth) ==
  LET result == check_winner(b) IN
  IF result = AI_MARK THEN SearchResult(10 - depth, NoMove, b)
  ELSE IF result = HUMAN_MARK THEN SearchResult(depth - 10, NoMove, b)
  ELSE IF result = "Draw" THEN SearchResult(0, NoMove, b)
  ELSE IF depth_limit # NoLimit /\ depth >= depth_limit THEN SearchResult(0, NoMove, b)
  ELSE LET moves == available_moves(b)
           Step(acc, k) == LoopStep(memo, acc, moves, k, is_maximizing, depth_limit, depth)
           a0 == SearchResult(IF is_maximizing THEN -Inf ELSE Inf, NoMove, b)
           a1 == Step(a0, 1)
           a2 == Step(a1, 2)
           a3 == Step(a2, 3)
           a4 == Step(a3, 4)
           a5 == Step(a4, 5)
           a6 == Step(a5, 6)
           a7 == Step(a6, 7)
           a8 == Step(a7, 8)
           a9 == Step(a8, 9)
       IN <<a1, a2, a3, a4, a5, a6, a7, a8, a9>>[9]

_minimax(b, is_maximizing, depth_limit, depth) ==
  MinimaxWith(<<>>, b, is_maximizing, depth_limit, depth)

\* ------------------------------------------------------------------------
\* _minimax tabulated: the searches the controller runs, computed once
\* ------------------------------------------------------------------------

\* The nodes of a search that _choose_ai_move starts (is_maximizing = TRUE,
\* depth 0) on a board of a game, where marks alternate from X: the
\* maximizing role, at even depth, is about to place O, the minimizing role,
\* at odd depth, X. SearchNodes[e] are the nodes with e empty cells.
SearchNodes ==
  [e \in 0 .. 9 |->
     {k : k \in UNION {{NodeKey(b, d) :
                          d \in {dd \in 0 .. (9 - e) :
                                   Count(b, HUMAN_MARK) - Count(b, AI_MARK)
                                     \in (IF dd % 2 = 0 THEN {0, 1} ELSE {-1, 0})}} :
                        b \in {bb \in [Cells -> Cell] : Count(bb, None) = e}}}]

\* SearchTables(e, depth_limit)[n + 1][NodeKey(board, depth)], for a board with
\* n <= e empty cells, is what _minimax(board, depth % 2 = 0, depth_limit, depth)
\* returns: the same body, its recursive calls looked up in the table of the
\* boards with one empty cell fewer. A full board makes no recursive call.
RECURSIVE SearchTables(_, _)
SearchTables(e, depth_limit) ==
  IF e = 0
  THEN << [k \in SearchNodes[0] |->
             MinimaxWith(<<>>, KeyBoard(k), KeyDepth(k) % 2 = 0, depth_limit, KeyDepth(k))] >>
  ELSE LET prev == SearchTables(e - 1, depth_limit)
       IN Append(prev,
                 [k \in SearchNodes[e] |->
                    MinimaxWith(<<prev[e]>>, KeyBoard(k), KeyDepth(k) % 2 = 0,
                                depth_limit, KeyDepth(k))])
HardTables == SearchTables(9, NoLimit)
MediumTables == SearchTables(9, MediumDepth)
Search(tables, b) == tables[Count(b, None) + 1][NodeKey(b, 0)]

\* ------------------------------------------------------------------------
\* The controller: TicTacToeGame
\* ------------------------------------------------------------------------

\* Calls of _trigger_ai_turn that may be suspended, one inside another, in
\* QApplication.processEvents() at the same time.
MaxNest == 1

Modes == {"pvp", "ai"}
Difficulties == {"Easy", "Medium", "Hard"}
\* What a caller may pass to set_mode and set_difficulty: the recognised values
\* and one that is not.
ModeArgs == Modes \cup {"online"}
DifficultyArgs == Difficulties \cup {"Impossible"}

VARIABLES
  board,           \* self.board
  current_player,  \* self.current_player
  game_over,       \* self.game_over
  config,          \* self.config: GameConfig(mode, difficulty)
  nest,            \* calls of _trigger_ai_turn suspended in processEvents()
  event,           \* the handler that ran last, and its argument
  call             \* the last call of a static helper, and what it returned

vars == <<board, current_player, game_over, config, nest, event, call>>

\* The fields of the object, as the handlers read and write them.
self ==
  [board |-> board, current_player |-> current_player, game_over |-> game_over,
   config |-> config, nest |-> nest]

\* _trigger_ai_turn up to its first statement, QApplication.processEvents():
\* the call is suspended there while the handlers of the pending events run.
_trigger_ai_turn(s) == [s EXCEPT !.nest = @ + 1]

\* reset_board without "self.current_player = self.HUMAN_MARK".
reset_board_keeping_turn(s) ==
  LET cleared == [s EXCEPT !.board = EmptyBoard, !.game_over = FALSE]
  IN IF cleared.config.mode = "ai" /\ cleared.current_player = AI_MARK
     THEN _trigger_ai_turn(cleared)
     ELSE cleared

\* reset_board. Its last two lines never call _trigger_ai_turn: current_player
\* was set to HUMAN_MARK four lines above.
reset_board(s) ==
  LET cleared == [s EXCEPT !.board = EmptyBoard,
                           !.current_player = HUMAN_MARK,
                           !.game_over = FALSE]
  IN IF cleared.config.mode = "ai" /\ cleared.current_player = AI_MARK
     THEN _trigger_ai_turn(cleared)
     ELSE cleared

\* set_mode without its call of reset_board.
set_mode_without_reset(s, mode) ==
  IF mode \notin Modes THEN s
  ELSE [s EXCEPT !.config.mode = mode]

set_mode(s, mode) ==
  IF mode \notin Modes THEN s
  ELSE IF s.config.mode # mode
       THEN reset_board([s EXCEPT !.config.mode = mode])
       ELSE s

set_difficulty(s, difficulty) ==
  IF difficulty \notin Difficulties THEN s
  ELSE reset_board([s EXCEPT !.config.difficulty = difficulty])

\* _check_game_end without "self.game_over = True".
_check_game_end_forgetting_flag(s) ==
  [self |-> s, ret |-> check_winner(s.board) # None]

\* _check_game_end: the object after the call and the value returned. The
\* modal QMessageBox blocks the window's input until it is closed, and
\* nothing is written after it.
_check_game_end(s) ==
  LET result == check_winner(s.board)
  IN IF result # None
     THEN [self |-> [s EXCEPT !.game_over = TRUE], ret |-> TRUE]
     ELSE [self |-> s, ret |-> FALSE]

\* The guard of handle_move with one of its two tests left out.
RejectedIfOver(s, index) == s.game_over
RejectedIfOccupied(s, index) == s.board[index] # None

\* if self.game_over or self.board[index] is not None: return
Rejected(s, index) == s.game_over \/ s.board[index] # None

handle_move(s, index) ==
  IF Rejected(s, index) THEN s
  ELSE LET placed == [s EXCEPT !.board[index] = s.current_player]
           ended == _check_game_end(placed)
       IN IF ended.ret THEN ended.self
          ELSE LET switched ==
                     [ended.self EXCEPT !.current_player =
                        IF @ = HUMAN_MARK THEN AI_MARK ELSE HUMAN_MARK]
               IN IF switched.config.mode = "ai" /\ switched.current_player = AI_MARK
                  THEN _trigger_ai_turn(switched)
                  ELSE switched

\* random.choice(available): any element of the list.
random_choice(available) == {available[k] : k \in 1 .. Len(available)}

\* _choose_ai_move: the moves it can return, NoMove for None.
_choose_ai_move(s) ==
  LET available == available_moves(s.board)
  IN IF Len(available) = 0 THEN {NoMove}
     ELSE IF s.config.difficulty = "Easy" THEN random_choice(available)
     ELSE IF s.config.difficulty = "Medium"
          THEN LET move == Search(MediumTables, s.board).move
               IN IF move # NoMove THEN {move} ELSE random_choice(available)
     ELSE LET move == Search(HardTables, s.board).move
          IN IF move # NoMove THEN {move} ELSE random_choice(available)

\* What is recorded of a handler that runs: its name, its argument, and the
\* game it found (whether it was over, the configuration, the number of marks).
Marks(b) == Cardinality({idx \in Cells : b[idx] # None})
Event(op, arg) ==
  [op |-> op, arg |-> arg, game_over |-> game_over, config |-> config,
   marks |-> Marks(board)]

Assign(s) ==
  /\ board' = s.board
  /\ current_player' = s.current_player
  /\ game_over' = s.game_over
  /\ config' = s.config
  /\ nest' = s.nest

\* A cell button's clicked signal, or any other call of handle_move(index).
\* It runs from the event loop, or from the processEvents() of a suspended
\* _trigger_ai_turn.
Click(index) ==
  /\ handle_move(self, index).nest <= MaxNest
  /\ Assign(handle_move(self, index))
  /\ event' = Event("handle_move", index)
  /\ UNCHANGED call

\* The reset button.
Reset ==
  /\ Assign(reset_board(self))
  /\ event' = Event("reset_board", NoMove)
  /\ UNCHANGED call

\* A mode button.
SetMode(mode) ==
  /\ Assign(set_mode(self, mode))
  /\ event' = Event("set_mode", mode)
  /\ UNCHANGED call

\* The difficulty combo box.
SetDifficulty(difficulty) ==
  /\ Assign(set_difficulty(self, difficulty))
  /\ event' = Event("set_difficulty", difficulty)
  /\ UNCHANGED call

\* The innermost suspended _trigger_ai_turn goes on after processEvents():
\* it chooses a move on the board as it is now and hands it to handle_move.
AiTurn ==
  /\ nest > 0
  /\ LET resumed == [self EXCEPT !.nest = @ - 1]
     IN \E move \in _choose_ai_move(resumed) :
          /\ IF move = NoMove THEN Assign(resumed)
             ELSE Assign(handle_move(resumed, move))
          /\ event' = Event("ai", move)
  /\ UNCHANGED call

NoCall == [op |-> "none"]

Init ==
  /\ board = EmptyBoard
  /\ current_player = HUMAN_MARK
  /\ game_over = FALSE
  /\ config = [mode |-> "ai", difficulty |-> "Medium"]
  /\ nest = 0
  /\ event = [op |-> "init", arg |-> NoMove, game_over |-> FALSE,
              config |-> [mode |-> "ai", difficulty |-> "Medium"], marks |-> 0]
  /\ call = NoCall

Next ==
  \/ \E index \in Cells : Click(index)
  \/ Reset
  \/ \E mode \in ModeArgs : SetMode(mode)
  \/ \E difficulty \in DifficultyArgs : SetDifficulty(difficulty)
  \/ AiTurn

Spec == Init /\ [][Next]_vars

\* The same controller when processEvents() finds no pending event: a handler
\* runs only from the event loop, with no _trigger_ai_turn suspended.
NextSync ==
  \/ nest = 0 /\ \E index \in Cells : Click(index)
  \/ nest = 0 /\ Reset
  \/ nest = 0 /\ \E mode \in ModeArgs : SetMode(mode)
  \/ nest = 0 /\ \E difficulty \in DifficultyArgs : SetDifficulty(difficulty)
  \/ AiTurn

SpecSync == Init /\ [][NextSync]_vars

\* ------------------------------------------------------------------------
\* The static helpers called on their own
\* ------------------------------------------------------------------------

\* check_winner(board), on any list of 9 cells.
CallCheckWinner ==
  /\ call = NoCall
  /\ call' = [op |-> "check_winner", arg |-> board, ret |-> check_winner(board)]
  /\ UNCHANGED <<board, current_player, game_over, config, nest, event>>

\* available_moves(board), on any list of 9 cells: the comprehension reads
\* the list and builds a new one.
CallAvailableMoves ==
  /\ call = NoCall
  /\ call' = [op |-> "available_moves", arg |-> board, ret |-> available_moves(board)]
  /\ UNCHANGED <<board, current_player, game_over, config, nest, event>>

InitBoards ==
  /\ board \in [Cells -> Cell]
  /\ current_player = HUMAN_MARK
  /\ game_over = FALSE
  /\ config = [mode |-> "ai", difficulty |-> "Medium"]
  /\ nest = 0
  /\ event = [op |-> "init", arg |-> NoMove, game_over |-> FALSE,
              config |-> [mode |-> "ai", difficulty |-> "Medium"], marks |-> 0]
  /\ call = NoCall

NextBoards == CallCheckWinner \/ CallAvailableMoves

SpecBoards == InitBoards /\ [][NextBoards]_vars

\* The boards a search is started on have at most MaxEmpty empty cells, and
\* the depth limits tried are None and 0 .. MaxDepthLimit.
MaxEmpty == 4
MaxDepthLimit == 3
DepthLimits == {NoLimit} \cup (0 .. MaxDepthLimit)

\* A top-level call _minimax(board, is_maximizing=..., depth_limit=...): the
\* list passed is the one the search places its marks on.
CallMinimax(is_maximizing, depth_limit) ==
  /\ call = NoCall
  /\ LET found == _minimax(board, is_maximizing, depth_limit, 0)
     IN /\ board' = found.board
        /\ call' = [op |-> "_minimax", arg |-> board,
                    is_maximizing |-> is_maximizing, depth_limit |-> depth_limit,
                    score |-> found.score, move |-> found.move]
  /\ UNCHANGED <<current_player, game_over, config, nest, event>>

InitSearch ==
  /\ board \in {b \in [Cells -> Cell] : 9 - Marks(b) <= MaxEmpty}
  /\ current_player = HUMAN_MARK
  /\ game_over = FALSE
  /\ config = [mode |-> "ai", difficulty |-> "Medium"]
  /\ nest = 0
  /\ event = [op |-> "init", arg |-> NoMove, game_over |-> FALSE,
              config |-> [mode |-> "ai", difficulty |-> "Medium"], marks |-> 0]
  /\ call = NoCall

NextSearch ==
  \E is_maximizing \in BOOLEAN, depth_limit \in DepthLimits :
    CallMinimax(is_maximizing, depth_limit)

SpecSearch == InitSearch /\ [][NextSearch]_vars

\* On the boards of a game among those, the tables hold what _minimax returns
\* for the two searches _choose_ai_move starts.
TablesMatchMinimax ==
  (call = NoCall /\ Count(board, HUMAN_MARK) - Count(board, AI_MARK) \in {0, 1}) =>
    /\ Search(HardTables, board) = _minimax(board, TRUE, NoLimit, 0)
    /\ Search(MediumTables, board) = _minimax(board, TRUE, MediumDepth, 0)

\* ------------------------------------------------------------------------
\* Games played with _minimax: the boards and the self-play of the scenarios
\* ------------------------------------------------------------------------

\* [X, X, None, O, O, None, None, None, None]
RowBoard ==
  (0 :> HUMAN_MARK) @@ (1 :> HUMAN_MARK) @@ (2 :> None) @@
  (3 :> AI_MARK) @@ (4 :> AI_MARK) @@ (5 :> None) @@
  (6 :> None) @@ (7 :> None) @@ (8 :> None)

\* [X, None, None, None, X, None, None, None, None]
DiagonalBoard ==
  (0 :> HUMAN_MARK) @@ (1 :> None) @@ (2 :> None) @@
  (3 :> None) @@ (4 :> HUMAN_MARK) @@ (5 :> None) @@
  (6 :> None) @@ (7 :> None) @@ (8 :> None)

ScenarioBoards == {EmptyBoard, RowBoard, DiagonalBoard}

Opponent(mark) == IF mark = HUMAN_MARK THEN AI_MARK ELSE HUMAN_MARK

\* A top-level unbounded call _minimax(b, is_maximizing=..., depth_limit=None):
\* looked up where the tabulated searches cover the board, computed otherwise.
TopLevelSearch(b, is_maximizing) ==
  IF is_maximizing /\ Count(b, HUMAN_MARK) - Count(b, AI_MARK) \in {0, 1}
  THEN Search(HardTables, b)
  ELSE _minimax(b, is_maximizing, NoLimit, 0)

\* The player to move asks _minimax (unbounded depth; maximizing for O,
\* minimizing for X) and places the move returned on the list the search
\* worked on.
SearchMove ==
  /\ check_winner(board) = None
  /\ \E found \in {TopLevelSearch(board, current_player = AI_MARK)} :
       /\ found.move # NoMove
       /\ board' = [found.board EXCEPT ![found.move] = current_player]
       /\ call' = [op |-> "_minimax", arg |-> board,
                   is_maximizing |-> (current_player = AI_MARK),
                   depth_limit |-> NoLimit,
                   score |-> found.score, move |-> found.move]
       /\ event' = [event EXCEPT !.op = "search", !.arg = found.move]
  /\ current_player' = Opponent(current_player)
  /\ UNCHANGED <<game_over, config, nest>>

\* X places a mark on any empty cell instead, without asking the search.
FreeMove(index) ==
  /\ check_winner(board) = None
  /\ current_player = HUMAN_MARK
  /\ board[index] = None
  /\ board' = [board EXCEPT ![index] = current_player]
  /\ event' = [event EXCEPT !.op = "free", !.arg = index, !.searched = FALSE]
  /\ current_player' = Opponent(current_player)
  /\ UNCHANGED <<game_over, config, nest, call>>

\* O is to move on one of the scenario boards; event.start keeps the board
\* the play began on, event.searched whether every move since came from
\* _minimax.
InitPlay ==
  /\ board \in ScenarioBoards
  /\ current_player = AI_MARK
  /\ game_over = FALSE
  /\ config = [mode |-> "ai", difficulty |-> "Hard"]
  /\ nest = 0
  /\ event = [op |-> "init", arg |-> NoMove, start |-> board, searched |-> TRUE]
  /\ call = NoCall

NextPlay ==
  \/ SearchMove
  \/ \E index \in Cells : FreeMove(index)

SpecPlay == InitPlay /\ [][NextPlay]_vars

\* ------------------------------------------------------------------------
\* Properties
\* ------------------------------------------------------------------------

ResetOps == {"reset_board", "set_mode", "set_difficulty"}
MoveOps == {"handle_move", "ai"}
FreshGame == board = EmptyBoard /\ current_player = HUMAN_MARK /\ ~game_over

\* C1: in AI mode at Hard difficulty, check_winner(board) is never the human
\* mark X.
C1_HardNeverLetsXWin ==
  (config.mode = "ai" /\ config.difficulty = "Hard") => check_winner(board) # HUMAN_MARK

\* C2: after a top-level _minimax call, for any board, role and depth limit,
\* the list passed holds, cell by cell, what it held before the call.
C2_MinimaxRestoresBoard ==
  call.op = "_minimax" => \A idx \in Cells : board[idx] = call.arg[idx]

C2_Witness ==
  /\ call.op = "_minimax"
  /\ call.move # NoMove
  /\ 9 - Marks(call.arg) = MaxEmpty
  /\ call.depth_limit = NoLimit
  /\ ~call.is_maximizing

\* C3: handle_move(index) called when the game is over, or on an occupied
\* cell, changes none of board, current_player, game_over and config, and
\* triggers no AI turn.
C3_RejectedMoveIsNoOp ==
  [][(event'.op = "handle_move" /\ (game_over \/ board[event'.arg] # None))
       => UNCHANGED <<board, current_player, game_over, config, nest>>]_vars

C3_Witness ==
  /\ event.op = "handle_move"
  /\ event.game_over
  /\ board[event.arg] = None
  /\ config.mode = "ai"

\* C4: a cell that holds a mark holds the same mark after every step, unless
\* the step is a reset (reset_board, or set_mode / set_difficulty resetting),
\* which empties the whole board.
C4_MarksStayUntilReset ==
  [][\A idx \in Cells :
       board[idx] # None =>
         \/ board'[idx] = board[idx]
         \/ event'.op \in ResetOps /\ board' = EmptyBoard]_vars

C4_Witness ==
  /\ event.op = "ai"
  /\ event.marks >= 4
  /\ Marks(board) = event.marks + 1

\* C5: once game_over is true, a handle_move call, the human's or the AI's,
\* leaves board, current_player and game_over as they are, and only a reset
\* makes game_over false again.
C5_TerminalStaysUntilReset ==
  [][game_over =>
       /\ event'.op \in MoveOps =>
            UNCHANGED <<board, current_player, game_over>>
       /\ ~game_over' => event'.op \in ResetOps /\ FreshGame']_vars

C5_Witness ==
  /\ event.op = "ai"
  /\ event.arg # NoMove
  /\ event.game_over
  /\ game_over

\* The 8 lines as sets of cells, and the marks that hold all three cells of
\* some line of b.
Lines ==
  {{3 * r, 3 * r + 1, 3 * r + 2} : r \in 0 .. 2}
    \cup {{c, c + 3, c + 6} : c \in 0 .. 2}
    \cup {{0, 4, 8}, {2, 4, 6}}
LineWinners(b) ==
  {m \in {HUMAN_MARK, AI_MARK} : \E line \in Lines : \A idx \in line : b[idx] = m}

\* C6: check_winner classifies every board of {None, X, O}^9: the mark of a
\* complete line when some line of the 8 is complete, Draw when none is and no
\* cell is empty, None when none is and a cell is empty; the board is not
\* modified.
C6_CheckWinnerClassifies ==
  call.op = "check_winner" =>
    /\ board = call.arg
    /\ LineWinners(call.arg) # {} => call.ret \in LineWinners(call.arg)
    /\ (LineWinners(call.arg) = {} /\ Marks(call.arg) = 9) => call.ret = "Draw"
    /\ (LineWinners(call.arg) = {} /\ Marks(call.arg) < 9) => call.ret = None
    /\ Cardinality(Lines) = 8

C6_Witness ==
  /\ call.op = "check_winner"
  /\ LineWinners(call.arg) = {HUMAN_MARK, AI_MARK}
  /\ call.ret = AI_MARK

\* C7: reset_board, in any state, leaves the board empty, check_winner
\* undecided, game_over false and current_player X, with config unchanged and
\* no AI turn started.
C7_ResetBoardResult ==
  [][event'.op = "reset_board" =>
       /\ board' = EmptyBoard
       /\ check_winner(board') = None
       /\ ~game_over'
       /\ current_player' = HUMAN_MARK
       /\ UNCHANGED <<config, nest>>]_vars

C7_Witness ==
  /\ event.op = "reset_board"
  /\ event.game_over
  /\ event.marks = 9
  /\ config.mode = "ai"

\* C8: when set_mode changes the mode or set_difficulty the difficulty, the
\* new value is stored and the game is fresh (empty board, X to move, not
\* over); no step changes config without that; a call with an unrecognised
\* value changes nothing.
C8_ConfigChangeResets ==
  [][/\ (event'.op = "set_mode" /\ event'.arg \in Modes /\ event'.arg # config.mode)
          => config' = [config EXCEPT !.mode = event'.arg] /\ FreshGame'
     /\ (event'.op = "set_difficulty" /\ event'.arg \in Difficulties
           /\ event'.arg # config.difficulty)
          => config' = [config EXCEPT !.difficulty = event'.arg] /\ FreshGame'
     /\ config' # config => FreshGame'
     /\ (event'.op = "set_mode" /\ event'.arg \notin Modes)
          => UNCHANGED <<board, current_player, game_over, config, nest>>
     /\ (event'.op = "set_difficulty" /\ event'.arg \notin Difficulties)
          => UNCHANGED <<board, current_player, game_over, config, nest>>]_vars

C8_Witness ==
  /\ event.op = "set_mode"
  /\ event.config.mode = "ai"
  /\ config.mode = "pvp"
  /\ event.marks >= 3
  /\ ~event.game_over
  /\ FreshGame

\* C9: a placement made by the AI's turn puts the mark O on a cell that was
\* empty, and nothing else changes on the board.
C9_AiPlacesO ==
  [][(event'.op = "ai" /\ board' # board) =>
       \E idx \in Cells :
         board[idx] = None /\ board' = [board EXCEPT ![idx] = AI_MARK]]_vars

\* The second half of C9's sentence: with no AI turn pending, in AI mode and
\* with the game not over, it is X's turn.
IdleAiModeIsHumansTurn ==
  (nest = 0 /\ config.mode = "ai" /\ ~game_over) => current_player = HUMAN_MARK

\* C10: while an AI turn is pending (between the human's placement and the
\* AI's), the state is the one the human's move produced: AI mode, game not
\* over, O to move.
C10_AiReplyUninterrupted ==
  nest > 0 => (config.mode = "ai" /\ ~game_over /\ current_player = AI_MARK)

\* C11 as stated: on a board with an empty cell _minimax, for either role and
\* any depth limit, returns the index of an empty cell, and on a board with no
\* empty cell it returns the neutral result (0, None).
C11_MoveWheneverCellEmpty ==
  call.op = "_minimax" =>
    IF Marks(call.arg) < 9
    THEN call.move \in Cells /\ call.arg[call.move] = None
    ELSE call.move = NoMove /\ call.score = 0

\* C11, amended: on an undecided board (which has an empty cell) and with a
\* depth limit of None or at least 1, _minimax returns the index of an empty
\* cell of that board, for either role; on a decided board (won or drawn,
\* with or without empty cells) it returns move None with the terminal score
\* 10, -10 or 0, and on an undecided board with depth limit 0 it returns
\* (0, None).
C11_MoveIffUndecidedBelowLimit ==
  call.op = "_minimax" =>
    LET result == check_winner(call.arg)
    IN IF result = None /\ call.depth_limit # 0
       THEN call.move \in Cells /\ call.arg[call.move] = None
       ELSE /\ call.move = NoMove
            /\ call.score = (IF result = AI_MARK THEN 10
                             ELSE IF result = HUMAN_MARK THEN -10 ELSE 0)

C11_Witness ==
  /\ call.op = "_minimax"
  /\ check_winner(call.arg) = None
  /\ 9 - Marks(call.arg) = MaxEmpty
  /\ call.depth_limit = 1
  /\ call.is_maximizing
  /\ call.move \in Cells

\* C12 as stated: on [X, X, None, O, O, None, None, None, None], with O
\* maximizing and unbounded depth, the top-level _minimax call returns move 5
\* and score 10.
C12_RowWinScoresTen ==
  (call.op = "_minimax" /\ call.arg = RowBoard /\ call.is_maximizing
     /\ call.depth_limit = NoLimit) =>
    call.move = 5 /\ call.score = 10

\* C12, amended: on that board, with O maximizing and unbounded depth, the
\* top-level _minimax call returns move 5 and score 9: the win is found one
\* ply below the root and scored 10 - depth with depth 1.
C12_RowWinScoresNine ==
  (call.op = "_minimax" /\ call.arg = RowBoard /\ call.is_maximizing
     /\ call.depth_limit = NoLimit) =>
    call.move = 5 /\ call.score = 9

C12_Witness ==
  /\ call.op = "_minimax"
  /\ call.arg = RowBoard
  /\ call.is_maximizing
  /\ call.depth_limit = NoLimit
  /\ board[5] = AI_MARK
  /\ check_winner(board) = AI_MARK

\* The score of the move on cell idx for the role that moves on board b at
\* the given depth: what the search returns one ply down, after the placement.
ChildScoreAt(b, idx, is_maximizing, depth_limit, depth) ==
  _minimax([b EXCEPT ![idx] = IF is_maximizing THEN AI_MARK ELSE HUMAN_MARK],
           ~is_maximizing, depth_limit, depth + 1).score
ChildScore(b, idx, is_maximizing, depth_limit) ==
  ChildScoreAt(b, idx, is_maximizing, depth_limit, 0)

\* C13: on [X, None, None, None, X, None, None, None, None], with O
\* maximizing and unbounded depth, the top-level _minimax call returns a corner
\* among 2, 6, 8 that lies on the diagonal 0-4-8 and so blocks it, and every
\* move on a cell off that diagonal scores strictly lower than the score
\* returned for the blocking move.
C13_DiagonalIsBlocked ==
  (call.op = "_minimax" /\ call.arg = DiagonalBoard /\ call.is_maximizing
     /\ call.depth_limit = NoLimit) =>
    /\ call.move \in {2, 6, 8} \cap {0, 4, 8}
    /\ \A idx \in Cells \ {0, 4, 8} :
         call.arg[idx] = None => ChildScore(call.arg, idx, TRUE, NoLimit) < call.score

C13_Witness ==
  /\ call.op = "_minimax"
  /\ call.arg = DiagonalBoard
  /\ call.is_maximizing
  /\ call.depth_limit = NoLimit
  /\ board[8] = AI_MARK
  /\ Marks(board) = 3

\* C14: in self-play from the empty board with unbounded depth, O moving
\* first with the move of _minimax(is_maximizing=True) and X replying with
\* the move of _minimax(is_maximizing=False), X never completes a line: the
\* game ends as a draw or an O win.
C14_SelfPlayNeverXWin ==
  (event.start = EmptyBoard /\ event.searched) =>
    /\ HUMAN_MARK \notin LineWinners(board)
    /\ check_winner(board) \in {None, "Draw", AI_MARK}

C14_Witness ==
  /\ event.start = EmptyBoard
  /\ event.searched
  /\ event.op = "search"
  /\ check_winner(board) \in {"Draw", AI_MARK}

\* C15: for every board, available_moves returns exactly the indices of the
\* empty cells, in strictly ascending order (so without duplicates), as many
\* as there are empty cells, and leaves the board as it was.
C15_AvailableMovesAscending ==
  call.op = "available_moves" =>
    /\ {call.ret[k] : k \in 1 .. Len(call.ret)} = {idx \in Cells : call.arg[idx] = None}
    /\ \A k \in 1 .. Len(call.ret) - 1 : call.ret[k] < call.ret[k + 1]
    /\ Len(call.ret) = Cardinality({idx \in Cells : call.arg[idx] = None})
    /\ board = call.arg

C15_Witness ==
  /\ call.op = "available_moves"
  /\ Len(call.ret) = 4
  /\ call.ret[1] = 1
  /\ call.ret[4] = 7
  /\ call.arg[0] = AI_MARK

\* A node the search goes below: undecided and above the depth limit.
Expanded(b, depth_limit, depth) ==
  check_winner(b) = None /\ (depth_limit = NoLimit \/ depth < depth_limit)

\* (score, move) is the best of the children of the node: score is the
\* extremum of the child scores over the empty cells, move the smallest empty
\* cell whose child has that score.
BestOfChildren(b, is_maximizing, depth_limit, depth, score, move) ==
  LET empty == {idx \in Cells : b[idx] = None}
  IN /\ move \in empty
     /\ score = ChildScoreAt(b, move, is_maximizing, depth_limit, depth)
     /\ \A idx \in empty :
          LET child == ChildScoreAt(b, idx, is_maximizing, depth_limit, depth)
          IN /\ IF is_maximizing THEN child <= score ELSE child >= score
             /\ child = score => move <= idx

\* C16: at every undecided node above the depth limit _minimax returns as
\* score the maximum (maximizing) or minimum (minimizing) of the scores of its
\* children over all empty cells, and as move the smallest empty cell whose
\* child has that score. Stated of the node of the top-level call (depth 0)
\* and of each of its children (depth 1).
C16_BestChildFirstOnTies ==
  call.op = "_minimax" =>
    /\ Expanded(call.arg, call.depth_limit, 0) =>
         BestOfChildren(call.arg, call.is_maximizing, call.depth_limit, 0,
                        call.score, call.move)
    /\ \A idx \in Cells :
         call.arg[idx] = None =>
           LET child == [call.arg EXCEPT ![idx] =
                           IF call.is_maximizing THEN AI_MARK ELSE HUMAN_MARK]
               node == _minimax(child, ~call.is_maximizing, call.depth_limit, 1)
           IN Expanded(child, call.depth_limit, 1) =>
                BestOfChildren(child, ~call.is_maximizing, call.depth_limit, 1,
                               node.score, node.move)

\* A search whose best score is reached by the moves on two cells, the larger
\* of which is not the move returned.
C16_Witness ==
  /\ call.op = "_minimax"
  /\ Expanded(call.arg, call.depth_limit, 0)
  /\ call.depth_limit = NoLimit
  /\ call.score # 0
  /\ \E idx \in Cells :
       /\ call.arg[idx] = None
       /\ idx > call.move
       /\ ChildScore(call.arg, idx, call.is_maximizing, NoLimit) = call.score

\* The largest number of hypothetical marks on the board at once during the
\* call _minimax(b, ..., depth): a node that returns no move has placed none
\* beyond the depth marks of its ancestors, a node that returns a move has
\* run its loop over every empty cell.
RECURSIVE HypotheticalMarks(_, _, _, _)
HypotheticalMarks(b, is_maximizing, depth_limit, depth) ==
  IF _minimax(b, is_maximizing, depth_limit, depth).move = NoMove THEN depth
  ELSE LET moves == available_moves(b)
           mark == IF is_maximizing THEN AI_MARK ELSE HUMAN_MARK
           below == {HypotheticalMarks(Place(b, moves[k], mark), ~is_maximizing,
                                       depth_limit, depth + 1) : k \in 1 .. Len(moves)}
       IN CHOOSE peak \in below : \A other \in below : peak >= other

\* C17: with a depth limit d, a node at depth >= d returns move None and
\* leaves the board alone, with score 0 when it is undecided and the
\* terminal score (10 - depth for an O win, depth - 10 for an X win, 0 for a
\* draw) when it is decided; so a search with limit d, the depth-3 search of
\* Medium among them, never has more than d hypothetical marks on the board
\* at once.
C17_DepthLimitCutsSearch ==
  (call.op = "_minimax" /\ call.depth_limit # NoLimit) =>
    LET result == check_winner(call.arg)
    IN /\ \A depth \in call.depth_limit .. MaxDepthLimit + 1 :
            LET node == _minimax(call.arg, call.is_maximizing, call.depth_limit, depth)
            IN /\ node.move = NoMove
               /\ node.board = call.arg
               /\ node.score = (IF result = AI_MARK THEN 10 - depth
                                ELSE IF result = HUMAN_MARK THEN depth - 10 ELSE 0)
       /\ call.depth_limit = 0 => call.move = NoMove
       /\ HypotheticalMarks(call.arg, call.is_maximizing, call.depth_limit, 0)
            <= call.depth_limit

\* A depth-3 search on an undecided board with more than 3 empty cells: the
\* limit, not the full board, ends it.
C17_Witness ==
  /\ call.op = "_minimax"
  /\ call.depth_limit = MediumDepth
  /\ call.is_maximizing
  /\ 9 - Marks(call.arg) > MediumDepth
  /\ call.move # NoMove
  /\ HypotheticalMarks(call.arg, TRUE, MediumDepth, 0) = MediumDepth
  /\ \E idx \in Cells :
       /\ call.arg[idx] = None
       /\ check_winner([call.arg EXCEPT ![idx] = AI_MARK]) = None

\* C18: whenever the AI is asked to move (an AI turn is pending and about to
\* call _choose_ai_move), _choose_ai_move returns an empty cell at every
\* difficulty, returns None only when no cell is empty, and at Medium and
\* Hard the search itself returns a move, so that the random fallback is not
\* taken.
C18_SearchAlwaysFindsMove ==
  nest > 0 =>
    LET chosen == _choose_ai_move([self EXCEPT !.nest = @ - 1])
    IN /\ \A move \in chosen :
            IF Marks(board) = 9 THEN move = NoMove
            ELSE move \in Cells /\ board[move] = None
       /\ (config.difficulty = "Medium" /\ Marks(board) < 9) =>
            Search(MediumTables, board).move # NoMove
       /\ (config.difficulty = "Hard" /\ Marks(board) < 9) =>
            Search(HardTables, board).move # NoMove

\* C19: in every state in which no handler is running, game_over is true
\* exactly when check_winner(board) is decided (X, O or Draw), after any
\* sequence of moves, AI replies, resets and configuration changes.
C19_GameOverIffDecided ==
  nest = 0 => (game_over <=> check_winner(board) \in {HUMAN_MARK, AI_MARK, "Draw"})

C19_Witness ==
  /\ nest = 0
  /\ game_over
  /\ event.op = "ai"
  /\ check_winner(board) = AI_MARK
  /\ config.difficulty = "Easy"

\* C20: in every state in which no handler is running, in either mode, the
\* number of X marks minus the number of O marks is 0 or 1, and while the game
\* is not over current_player is X exactly when the two numbers are equal and
\* O exactly when X has one more mark.
C20_MarksAlternateFromX ==
  nest = 0 =>
    LET ahead == Count(board, HUMAN_MARK) - Count(board, AI_MARK)
    IN /\ ahead \in {0, 1}
       /\ ~game_over => /\ current_player = HUMAN_MARK <=> ahead = 0
                        /\ current_player = AI_MARK <=> ahead = 1

C20_Witness ==
  /\ nest = 0
  /\ ~game_over
  /\ config.mode = "pvp"
  /\ current_player = AI_MARK
  /\ Count(board, HUMAN_MARK) = 3
  /\ Count(board, AI_MARK) = 2
  /\ event.op = "handle_move"

====
